---- MODULE Spec2Model ----
(***************************************************************************)
(* Access tracking and parameter binding of bevy_ecs function systems      *)
(* (crates/bevy_ecs/src/system/into_system.rs): the SystemState ledger,    *)
(* its update pass with the query-conflict check, and the FuncSystem       *)
(* wrapper with its initialize / run / run_thread_local closures.          *)
(***************************************************************************)
EXTENDS Integers, Sequences, FiniteSets, TLC

\* ------------------------------------------------------------------ bounds
\* longest parameter list of the unit under study
MaxParams == 2

\* most query slots of a unit whose ledger is studied on its own
MaxSlots == 3

\* ------------------------------------------------------------- the storage
Components == {"A", "B"}

\* an archetype is the set of component types its entities carry
Archetypes == (SUBSET Components) \ {{}}

ResTypes == {"bool", "i32"}

\* unit 1 is the unit under study, unit 2 a sibling unit of the same schedule
Units == {1, 2}

\* ------------------------------------------------------------- Access Set
\* TypeAccess<ArchetypeComponent>: keys are <<archetype, component>>
EmptyAccess == [reads |-> {}, writes |-> {}]

union(self, other) ==
    [reads |-> self.reads \cup other.reads, writes |-> self.writes \cup other.writes]

is_compatible(self, other) ==
    /\ self.writes \cap (other.reads \cup other.writes) = {}
    /\ self.reads \cap other.writes = {}

\* ------------------------------------------------ Query Access Expression
\* a query access: the component types the query reads and writes; it
\* matches the archetypes that carry all of them
QueryAccess(r, w) == [reads |-> r, writes |-> w]

Matches(query_access, archetype) ==
    (query_access.reads \cup query_access.writes) \subseteq archetype

\* adds, for every archetype of the world the expression matches, its
\* component keys at that archetype's scope
get_world_archetype_access(query_access, world_, into) ==
    LET matched == {a \in world_ : Matches(query_access, a)}
    IN  [reads  |-> into.reads \cup
                     {<<a, c>> : a \in matched, c \in query_access.reads},
         writes |-> into.writes \cup
                     {<<a, c>> : a \in matched, c \in query_access.writes}]

\* ------------------------------------------------------ parameter types
Param(k, qs, r) == [kind |-> k, accesses |-> qs, res |-> r]

QueryReadA    == Param("Query", <<QueryAccess({"A"}, {})>>, {})
QueryWriteA   == Param("Query", <<QueryAccess({}, {"A"})>>, {})
QueryReadB    == Param("Query", <<QueryAccess({"B"}, {})>>, {})
QueryWriteARB == Param("Query", <<QueryAccess({"B"}, {"A"})>>, {})
QuerySetWAB   == Param("QuerySet",
                       <<QueryAccess({}, {"A"}), QueryAccess({"B"}, {})>>, {})
QuerySetWARA  == Param("QuerySet",
                       <<QueryAccess({}, {"A"}), QueryAccess({"A"}, {})>>, {})
ChangedResBool == Param("ChangedRes", <<>>, {"bool"})
\* Or<(Option<ChangedRes<bool>>, Option<ChangedRes<i32>>)>
OrChangedRes   == Param("Or", <<>>, {"bool", "i32"})
ResMutBool     == Param("ResMut", <<>>, {"bool"})
CommandsParam  == Param("Commands", <<>>, {})
ArcCommandsParam == Param("ArcCommands", <<>>, {})

ParamTypes == {QueryReadA, QueryWriteA, QueryReadB, QueryWriteARB, QuerySetWAB,
               QuerySetWARA, ChangedResBool, CommandsParam, ArcCommandsParam}

IsQueryLike(p) == p.kind \in {"Query", "QuerySet"}

\* the queries of the unit whose ledger is studied on its own
LedgerTypes == {QueryReadA, QueryWriteA, QueryReadB, QueryWriteARB}

SeqsUpTo(S, n) == UNION {[1..k -> S] : k \in 0..n}

\* the parameter lists of the units of a two-unit schedule
SchedParamLists ==
    {<<QueryWriteA, CommandsParam>>, <<ChangedResBool, QueryReadB, ArcCommandsParam>>}

\* the parameter lists of the units that take resources, as in the tests
ResParamLists ==
    {<<ChangedResBool, QueryWriteA>>, <<OrChangedRes, QueryWriteA>>,
     <<ResMutBool, QueryReadA>>}

\* -------------------------------------------------------- System State
\* SystemState as built by system(): Option values are sequences of length
\* at most one
NewSystemState ==
    [is_initialized |-> FALSE,
     archetype_component_access |-> EmptyAccess,
     resource_access |-> {},
     query_archetype_component_accesses |-> <<>>,
     query_accesses |-> <<>>,
     commands |-> <<>>,
     arc_commands |-> <<>>,
     current_query_index |-> 0]

\* variant with a defect: the cursor is left where the last run stopped
reset_indices_kept(st) == st

reset_indices(st) == [st EXCEPT !.current_query_index = 0]

\* the access set of one slot: cleared, then every query access of the slot
\* resolved into it
RECURSIVE ResolveInto(_, _, _, _)
ResolveInto(query_accesses, k, world_, component_access) ==
    IF k > Len(query_accesses) THEN component_access
    ELSE ResolveInto(query_accesses, k + 1, world_,
            get_world_archetype_access(query_accesses[k], world_, component_access))

\* the scan of update over the slots i, i+1, ...: conflict_index is <<>> or
\* <<i>> with i the slot at which the scan stopped
RECURSIVE UpdateScan(_, _, _)
UpdateScan(st, world_, i) ==
    IF i > Len(st.query_accesses) \/ i > Len(st.query_archetype_component_accesses)
    THEN [state |-> st, conflict_index |-> <<>>]
    ELSE LET component_access == ResolveInto(st.query_accesses[i], 1, world_, EmptyAccess)
             st1 == [st EXCEPT !.query_archetype_component_accesses[i] = component_access]
         IN  IF ~is_compatible(component_access, st.archetype_component_access)
             THEN [state |-> st1, conflict_index |-> <<i>>]
             ELSE UpdateScan(
                     [st1 EXCEPT !.archetype_component_access = union(@, component_access)],
                     world_, i + 1)

\* the prior slot update names in its diagnostic: the last assignment of the
\* re-scan over 0..conflict_index wins
conflicts_with_index(st, conflict_index) ==
    LET prior == {j \in 1..(conflict_index - 1) :
                    ~is_compatible(st.query_archetype_component_accesses[conflict_index],
                                   st.query_archetype_component_accesses[j])}
    IN  IF prior = {} THEN <<>>
        ELSE <<CHOOSE j \in prior : \A k \in prior : k <= j>>

\* ---- variants of update with a defect; the properties below are checked to
\* ---- fail when update is replaced by one of them

\* the slot's access set is never merged into the aggregate (line 53 missing)
RECURSIVE ScanNoUnion(_, _, _)
ScanNoUnion(st, world_, i) ==
    IF i > Len(st.query_accesses) THEN [state |-> st, conflict_index |-> <<>>]
    ELSE LET component_access == ResolveInto(st.query_accesses[i], 1, world_, EmptyAccess)
             st1 == [st EXCEPT !.query_archetype_component_accesses[i] = component_access]
         IN  IF ~is_compatible(component_access, st.archetype_component_access)
             THEN [state |-> st1, conflict_index |-> <<i>>]
             ELSE ScanNoUnion(st1, world_, i + 1)

update_no_union(st, world_) ==
    LET scan == ScanNoUnion([st EXCEPT !.archetype_component_access = EmptyAccess], world_, 1)
    IN  [state |-> scan.state, conflict_index |-> scan.conflict_index,
         conflicts_with_index |-> <<>>]

\* line 39 tests for any shared key instead of is_compatible
Overlaps(self, other) ==
    (self.reads \cup self.writes) \cap (other.reads \cup other.writes) # {}

RECURSIVE ScanOverlap(_, _, _)
ScanOverlap(st, world_, i) ==
    IF i > Len(st.query_accesses) THEN [state |-> st, conflict_index |-> <<>>]
    ELSE LET component_access == ResolveInto(st.query_accesses[i], 1, world_, EmptyAccess)
             st1 == [st EXCEPT !.query_archetype_component_accesses[i] = component_access]
         IN  IF Overlaps(component_access, st.archetype_component_access)
             THEN [state |-> st1, conflict_index |-> <<i>>]
             ELSE ScanOverlap(
                     [st1 EXCEPT !.archetype_component_access = union(@, component_access)],
                     world_, i + 1)

update_overlap(st, world_) ==
    LET scan == ScanOverlap([st EXCEPT !.archetype_component_access = EmptyAccess], world_, 1)
    IN  [state |-> scan.state, conflict_index |-> scan.conflict_index,
         conflicts_with_index |-> <<>>]

\* the check and the merge of lines 39-53 sit inside the loop of line 36: every
\* query access of a slot is checked and merged on its own
RECURSIVE ScanPerAccess(_, _, _, _)
ScanPerAccess(st, world_, i, k) ==
    IF i > Len(st.query_accesses) THEN [state |-> st, conflict_index |-> <<>>]
    ELSE IF k > Len(st.query_accesses[i]) THEN ScanPerAccess(st, world_, i + 1, 1)
    ELSE LET one == get_world_archetype_access(st.query_accesses[i][k], world_, EmptyAccess)
             st1 == [st EXCEPT !.query_archetype_component_accesses[i] =
                        union(IF k = 1 THEN EmptyAccess ELSE @, one)]
         IN  IF ~is_compatible(one, st.archetype_component_access)
             THEN [state |-> st1, conflict_index |-> <<i>>]
             ELSE ScanPerAccess(
                     [st1 EXCEPT !.archetype_component_access = union(@, one)],
                     world_, i, k + 1)

update_per_access(st, world_) ==
    LET scan == ScanPerAccess([st EXCEPT !.archetype_component_access = EmptyAccess],
                              world_, 1, 1)
    IN  [state |-> scan.state, conflict_index |-> scan.conflict_index,
         conflicts_with_index |-> <<>>]

\* the aggregate is not cleared (line 26 missing)
update_stale(st, world_) ==
    LET scan == UpdateScan(st, world_, 1)
    IN  [state |-> scan.state, conflict_index |-> scan.conflict_index,
         conflicts_with_index |->
            IF scan.conflict_index = <<>> THEN <<>>
            ELSE conflicts_with_index(scan.state, scan.conflict_index[1])]

\* the aggregate is not cleared (line 26 missing) and a slot's access set
\* starts from the aggregate instead of empty (line 35)
RECURSIVE ScanSeeded(_, _, _)
ScanSeeded(st, world_, i) ==
    IF i > Len(st.query_accesses) THEN [state |-> st, conflict_index |-> <<>>]
    ELSE LET component_access == ResolveInto(st.query_accesses[i], 1, world_,
                                             st.archetype_component_access)
             st1 == [st EXCEPT !.query_archetype_component_accesses[i] = component_access]
         IN  IF ~is_compatible(component_access, st.archetype_component_access)
             THEN [state |-> st1, conflict_index |-> <<i>>]
             ELSE ScanSeeded(
                     [st1 EXCEPT !.archetype_component_access = union(@, component_access)],
                     world_, i + 1)

update_seeded(st, world_) ==
    LET scan == ScanSeeded(st, world_, 1)
    IN  [state |-> scan.state, conflict_index |-> scan.conflict_index,
         conflicts_with_index |-> <<>>]

\* a slot's access set is not cleared before it is resolved (line 35 missing)
RECURSIVE ScanUncleared(_, _, _)
ScanUncleared(st, world_, i) ==
    IF i > Len(st.query_accesses) THEN [state |-> st, conflict_index |-> <<>>]
    ELSE LET component_access ==
                ResolveInto(st.query_accesses[i], 1, world_,
                            st.query_archetype_component_accesses[i])
             st1 == [st EXCEPT !.query_archetype_component_accesses[i] = component_access]
         IN  IF ~is_compatible(component_access, st.archetype_component_access)
             THEN [state |-> st1, conflict_index |-> <<i>>]
             ELSE ScanUncleared(
                     [st1 EXCEPT !.archetype_component_access = union(@, component_access)],
                     world_, i + 1)

update_uncleared(st, world_) ==
    LET scan == ScanUncleared([st EXCEPT !.archetype_component_access = EmptyAccess],
                              world_, 1)
    IN  [state |-> scan.state, conflict_index |-> scan.conflict_index,
         conflicts_with_index |->
            IF scan.conflict_index = <<>> THEN <<>>
            ELSE conflicts_with_index(scan.state, scan.conflict_index[1])]

\* the scan goes on after a conflict (line 51 missing): the last conflicting
\* slot is the one reported
RECURSIVE ScanNoBreak(_, _, _, _)
ScanNoBreak(st, world_, i, found) ==
    IF i > Len(st.query_accesses) THEN [state |-> st, conflict_index |-> found]
    ELSE LET component_access == ResolveInto(st.query_accesses[i], 1, world_, EmptyAccess)
             st1 == [st EXCEPT !.query_archetype_component_accesses[i] = component_access,
                               !.archetype_component_access = union(@, component_access)]
         IN  ScanNoBreak(st1, world_, i + 1,
                IF ~is_compatible(component_access, st.archetype_component_access)
                THEN <<i>> ELSE found)

update_no_break(st, world_) ==
    LET scan == ScanNoBreak([st EXCEPT !.archetype_component_access = EmptyAccess],
                            world_, 1, <<>>)
    IN  [state |-> scan.state, conflict_index |-> scan.conflict_index,
         conflicts_with_index |->
            IF scan.conflict_index = <<>> THEN <<>>
            ELSE conflicts_with_index(scan.state, scan.conflict_index[1])]

\* line 53 replaces the aggregate by the slot's access set instead of merging
\* the slot's access set into it
RECURSIVE ScanReplace(_, _, _)
ScanReplace(st, world_, i) ==
    IF i > Len(st.query_accesses) THEN [state |-> st, conflict_index |-> <<>>]
    ELSE LET component_access == ResolveInto(st.query_accesses[i], 1, world_, EmptyAccess)
             st1 == [st EXCEPT !.query_archetype_component_accesses[i] = component_access]
         IN  IF ~is_compatible(component_access, st.archetype_component_access)
             THEN [state |-> st1, conflict_index |-> <<i>>]
             ELSE ScanReplace(
                     [st1 EXCEPT !.archetype_component_access = component_access],
                     world_, i + 1)

update_replace(st, world_) ==
    LET scan == ScanReplace([st EXCEPT !.archetype_component_access = EmptyAccess],
                            world_, 1)
    IN  [state |-> scan.state, conflict_index |-> scan.conflict_index,
         conflicts_with_index |->
            IF scan.conflict_index = <<>> THEN <<>>
            ELSE conflicts_with_index(scan.state, scan.conflict_index[1])]

\* the conflict found by the scan is not raised (lines 55-69 missing)
update_silent(st, world_) ==
    LET scan == UpdateScan([st EXCEPT !.archetype_component_access = EmptyAccess], world_, 1)
    IN  [state |-> scan.state, conflict_index |-> <<>>, conflicts_with_index |-> <<>>]

\* SystemState::update: the new state, and whether it panicked
update(st, world_) ==
    LET scan == UpdateScan([st EXCEPT !.archetype_component_access = EmptyAccess], world_, 1)
    IN  [state |-> scan.state,
         conflict_index |-> scan.conflict_index,
         conflicts_with_index |->
            IF scan.conflict_index = <<>> THEN <<>>
            ELSE conflicts_with_index(scan.state, scan.conflict_index[1])]

\* ------------------------------------------- Parameter Binding Capability
\* SystemParam::init of one parameter type
init(p, st) ==
    CASE IsQueryLike(p) ->
            [st EXCEPT !.query_archetype_component_accesses = Append(@, EmptyAccess),
                       !.query_accesses = Append(@, p.accesses)]
      [] p.kind \in {"ChangedRes", "Or", "ResMut"} ->
            [st EXCEPT !.resource_access = @ \cup p.res]
      [] p.kind = "ArcCommands" ->
            [st EXCEPT !.arc_commands = IF @ = <<>> THEN <<(<<>>)>> ELSE @]
      [] OTHER -> st

\* SystemParam::get_param of one parameter type: the new state, whether the
\* value is present, the query slot it is bound to (0: none), and whether
\* the call panics because a resource it requires does not exist
get_param(p, st, resources_) ==
    CASE IsQueryLike(p) ->
            [state |-> [st EXCEPT !.current_query_index = @ + 1],
             present |-> TRUE, slot |-> st.current_query_index + 1, panics |-> FALSE]
      [] p.kind \in {"ChangedRes", "Or"} ->
            [state |-> st,
             present |-> \E r \in p.res : resources_[r] = "changed",
             slot |-> 0, panics |-> FALSE]
      [] p.kind = "ResMut" ->
            [state |-> st,
             present |-> \A r \in p.res : resources_[r] # "absent",
             slot |-> 0,
             panics |-> \E r \in p.res : resources_[r] = "absent"]
      [] OTHER -> [state |-> st, present |-> TRUE, slot |-> 0, panics |-> FALSE]

\* get_param of the tuple of parameters k, k+1, ...: each in declaration
\* order, stopping at the first absent one
RECURSIVE get_params(_, _, _, _, _)
get_params(ps, k, st, resources_, got) ==
    IF k > Len(ps) THEN [state |-> st, extracted |-> got, panicked |-> FALSE]
    ELSE LET r == get_param(ps[k], st, resources_)
             got1 == Append(got, [present |-> r.present, slot |-> r.slot])
         IN  IF r.present THEN get_params(ps, k + 1, r.state, resources_, got1)
             ELSE [state |-> r.state, extracted |-> got1, panicked |-> r.panics]

\* ------------------------------------------------------------- the state
VARIABLES
    world,      \* the archetypes the storage holds
    resources,  \* each resource: absent, or its change flag
    params,     \* the declared parameter list of each unit
    state,      \* the SystemState of each unit
    pc,         \* where each unit is in its cycle
    diag,       \* outcome of each unit's last update: <<>> or the conflict
    extracted,  \* results of the get_param calls of each unit's last run
    trace,      \* operations performed on each unit since its last update
    history,    \* each unit's last two updates: storage, outcome, access sets
    fired       \* user function executions of each unit since the last change
                \* of a resource it tracks

vars == <<world, resources, params, state, pc, diag, extracted, trace, history,
          fired>>

\* run and update borrow the storage shared (&World)
SharedBorrowers == {u \in Units : pc[u] \in {"updated", "running"}}

\* run_thread_local borrows the storage exclusively (&mut World)
ExclusiveBorrowers == {u \in Units : pc[u] = "flushing"}

CanBorrowShared(u) == ExclusiveBorrowers \subseteq {u}

\* variant with a defect: the exclusive borrow is handed out unchecked
CanBorrowExclusive_unchecked(u) == TRUE

CanBorrowExclusive(u) == (SharedBorrowers \cup ExclusiveBorrowers) \subseteq {u}

\* the caller of the schedule has the storage and the resources between two
\* schedule runs
StorageFree == \A u \in Units : pc[u] \in {"idle", "aborted"}

HasParam(u, k) == \E i \in 1..Len(params[u]) : params[u][i].kind = k

\* the resources of the parameters of unit u of the kinds ks
ResOf(u, ks) ==
    UNION {params[u][i].res : i \in {k \in 1..Len(params[u]) : params[u][k].kind \in ks}}

\* the resources whose changes unit u tracks
Tracked(u) == ResOf(u, {"ChangedRes", "Or"})

\* fired after the resources rs changed
Refire(rs) == [u \in Units |-> IF Tracked(u) \cap rs # {} THEN 0 ELSE fired[u]]

\* Commands::apply on a buffer of spawn commands
apply(commands, world_) == world_ \cup {commands[i] : i \in 1..Len(commands)}

\* the spawn commands one run of the user function may queue on a buffer
Queued(has) == IF has THEN {<<>>} \cup {<<a>> : a \in Archetypes} ELSE {<<>>}

LastTwo(s) == IF Len(s) > 2 THEN Tail(s) ELSE s

Snapshot(st, world_, conflict) ==
    [world |-> world_,
     conflict |-> conflict,
     archetype_component_access |-> st.archetype_component_access,
     query_archetype_component_accesses |-> st.query_archetype_component_accesses]

\* World::default() and freshly inserted resources, as the tests build them;
\* every unit as system() returns it
InitWith(lists, inserted) ==
    /\ world = {}
    /\ \E rs \in inserted :
            resources = [r \in ResTypes |-> IF r \in rs THEN "changed" ELSE "absent"]
    /\ params \in lists
    /\ state = [u \in Units |-> NewSystemState]
    /\ pc = [u \in Units |-> "idle"]
    /\ diag = [u \in Units |-> <<>>]
    /\ extracted = [u \in Units |-> <<>>]
    /\ trace = [u \in Units |-> <<>>]
    /\ history = [u \in Units |-> <<>>]
    /\ fired = [u \in Units |-> 0]

\* only unit 1 is declared with parameters
Alone(lists) == {[u \in Units |-> IF u = 1 THEN ps ELSE <<>>] : ps \in lists}

\* one unit, declared with any parameter list; a bool resource is inserted
Init == InitWith(Alone(SeqsUpTo(ParamTypes, MaxParams)), {{"bool"}})

\* a schedule of two units
SchedInit == InitWith([Units -> SchedParamLists], {{"bool"}})

\* one unit that takes resources, any of which may not have been inserted
ResInit == InitWith(Alone(ResParamLists), SUBSET ResTypes)

\* one unit with query slots only, for the study of its ledger
LedgerInit == InitWith(Alone(SeqsUpTo(LedgerTypes, MaxSlots)), {{"bool"}})

\* ------------------------------------------------------------ FuncSystem
\* variant with a defect: the parameter types are initialised last to first
RECURSIVE init_func_reversed(_, _, _)
init_func_reversed(ps, k, st) ==
    IF k > Len(ps) THEN st ELSE init(ps[k], init_func_reversed(ps, k + 1, st))

\* init_func: init of every parameter type, in declaration order
RECURSIVE init_func(_, _, _)
init_func(ps, k, st) ==
    IF k > Len(ps) THEN st ELSE init_func(ps, k + 1, init(ps[k], st))

\* FuncSystem::initialize
initialize(ps, st) == [init_func(ps, 1, st) EXCEPT !.is_initialized = TRUE]

Initialize(u) ==
    /\ ~state[u].is_initialized
    /\ pc[u] = "idle"
    /\ CanBorrowExclusive(u)
    /\ state' = [state EXCEPT ![u] = initialize(params[u], @)]
    /\ UNCHANGED <<world, resources, params, pc, diag, extracted, trace, history, fired>>

\* FuncSystem::update, called by the schedule at the start of a unit's cycle;
\* a conflict panics, which aborts the unit's cycle
Update(u) ==
    /\ state[u].is_initialized
    /\ pc[u] \in {"idle", "aborted"}
    /\ CanBorrowShared(u)
    /\ LET r == update(state[u], world)
       IN  /\ state' = [state EXCEPT ![u] = r.state]
           /\ diag' = [diag EXCEPT ![u] =
                    IF r.conflict_index = <<>> THEN <<>>
                    ELSE <<[conflict_index |-> r.conflict_index[1],
                            conflicts_with_index |-> r.conflicts_with_index]>>]
           /\ pc' = [pc EXCEPT ![u] =
                    IF r.conflict_index = <<>> THEN "updated" ELSE "aborted"]
           /\ history' = [history EXCEPT ![u] =
                    LastTwo(Append(@, Snapshot(r.state, world, r.conflict_index # <<>>)))]
    /\ trace' = [trace EXCEPT ![u] = <<"update">>]
    /\ extracted' = [extracted EXCEPT ![u] = <<>>]
    /\ UNCHANGED <<world, resources, params, fired>>

\* variant with a defect: the user function is called whatever get_param
\* returned
RunEnter_ungated(u) ==
    /\ pc[u] = "updated"
    /\ LET r == get_params(params[u], 1, reset_indices(state[u]), resources, <<>>)
       IN  /\ state' = [state EXCEPT ![u] = r.state]
           /\ extracted' = [extracted EXCEPT ![u] = r.extracted]
           /\ pc' = [pc EXCEPT ![u] = IF r.panicked THEN "aborted" ELSE "running"]
    /\ trace' = [trace EXCEPT ![u] = @ \o <<"run", "reset_indices", "get_param">>]
    /\ UNCHANGED <<world, resources, params, diag, history, fired>>

\* FuncSystem::run up to the call of the user function: reset_indices, then
\* get_param of the parameter tuple; a get_param that panics aborts the cycle
RunEnter(u) ==
    /\ pc[u] = "updated"
    /\ LET r == get_params(params[u], 1, reset_indices(state[u]), resources, <<>>)
           all == Len(r.extracted) = Len(params[u])
                    /\ \A i \in 1..Len(r.extracted) : r.extracted[i].present
       IN  /\ state' = [state EXCEPT ![u] = r.state]
           /\ extracted' = [extracted EXCEPT ![u] = r.extracted]
           /\ pc' = [pc EXCEPT ![u] = IF r.panicked THEN "aborted"
                                      ELSE IF all THEN "running" ELSE "skipped"]
    /\ trace' = [trace EXCEPT ![u] = @ \o <<"run", "reset_indices", "get_param">>]
    /\ UNCHANGED <<world, resources, params, diag, history, fired>>

\* the user function: it may queue spawn commands on the command buffers its
\* parameters hand it and write the resources it has mutably; it has the
\* storage only shared
RunBody(u) ==
    /\ pc[u] = "running"
    /\ \E own \in Queued(HasParam(u, "Commands")),
          arc \in Queued(HasParam(u, "ArcCommands")) :
            state' = [state EXCEPT
                ![u].commands = @ \o own,
                ![u].arc_commands = IF @ = <<>> THEN @ ELSE <<@[1] \o arc>>]
    /\ \E written \in SUBSET ResOf(u, {"ResMut"}) :
            /\ resources' = [r \in ResTypes |->
                                IF r \in written THEN "changed" ELSE resources[r]]
            /\ fired' = [Refire(written) EXCEPT
                            ![u] = IF Tracked(u) = {} THEN @
                                   ELSE IF @ < 2 THEN @ + 1 ELSE @]
    /\ pc' = [pc EXCEPT ![u] = "ran"]
    /\ trace' = [trace EXCEPT ![u] = Append(@, "body")]
    /\ UNCHANGED <<world, params, diag, extracted, history>>

\* thread_local_func, first statement: the owned command buffer is applied
FlushOwned(u) ==
    /\ pc[u] \in {"ran", "skipped"}
    /\ CanBorrowExclusive(u)
    /\ world' = apply(state[u].commands, world)
    /\ state' = [state EXCEPT ![u].commands = <<>>]
    /\ pc' = [pc EXCEPT ![u] = "flushing"]
    /\ trace' = [trace EXCEPT ![u] = Append(@, "commands.apply")]
    /\ UNCHANGED <<resources, params, diag, extracted, history, fired>>

\* variant with a defect: the shared command buffer is never applied
FlushShared_skip(u) ==
    /\ pc[u] = "flushing"
    /\ pc' = [pc EXCEPT ![u] = "flushed"]
    /\ UNCHANGED <<world, state, trace, resources, params, diag, extracted, history,
                   fired>>

\* thread_local_func, second statement: the shared command buffer, if there
\* is one, is applied
FlushShared(u) ==
    /\ pc[u] = "flushing"
    /\ IF state[u].arc_commands # <<>>
       THEN /\ world' = apply(state[u].arc_commands[1], world)
            /\ state' = [state EXCEPT ![u].arc_commands = <<(<<>>)>>]
            /\ trace' = [trace EXCEPT ![u] = Append(@, "arc_commands.apply")]
       ELSE UNCHANGED <<world, state, trace>>
    /\ pc' = [pc EXCEPT ![u] = "flushed"]
    /\ UNCHANGED <<resources, params, diag, extracted, history, fired>>

\* ------------------------------------------------------- the environment
\* World::spawn of an entity whose component combination is new
Spawn(a) ==
    /\ StorageFree
    /\ a \notin world
    /\ world' = world \cup {a}
    /\ UNCHANGED <<resources, params, state, pc, diag, extracted, trace, history,
                   fired>>

\* World::despawn of the last entity of an archetype
Despawn(a) ==
    /\ StorageFree
    /\ a \in world
    /\ world' = world \ {a}
    /\ UNCHANGED <<resources, params, state, pc, diag, extracted, trace, history,
                   fired>>

\* Resources::insert of a resource that was not there
InsertRes(r) ==
    /\ StorageFree
    /\ resources[r] = "absent"
    /\ resources' = [resources EXCEPT ![r] = "changed"]
    /\ fired' = Refire({r})
    /\ UNCHANGED <<world, params, state, pc, diag, extracted, trace, history>>

\* a resource is mutated through get_mut
MutateRes(r) ==
    /\ StorageFree
    /\ resources[r] = "unchanged"
    /\ resources' = [resources EXCEPT ![r] = "changed"]
    /\ fired' = Refire({r})
    /\ UNCHANGED <<world, params, state, pc, diag, extracted, trace, history>>

\* the end of a schedule run, once every unit of the schedule has been
\* flushed: the change flags of the resources are cleared
ClearTrackers ==
    /\ \A u \in Units : state[u].is_initialized => pc[u] \in {"flushed", "aborted"}
    /\ \E u \in Units : pc[u] = "flushed"
    /\ resources' = [r \in ResTypes |->
                        IF resources[r] = "absent" THEN "absent" ELSE "unchanged"]
    /\ pc' = [u \in Units |-> IF pc[u] = "flushed" THEN "idle" ELSE pc[u]]
    /\ UNCHANGED <<world, params, state, diag, extracted, trace, history, fired>>

UnitStep(u) ==
    \/ Initialize(u)
    \/ Update(u)
    \/ RunEnter(u)
    \/ RunBody(u)
    \/ FlushOwned(u)
    \/ FlushShared(u)

Environment ==
    \/ \E a \in Archetypes : Spawn(a)
    \/ \E r \in ResTypes : MutateRes(r)
    \/ ClearTrackers

Next ==
    \/ UnitStep(1)
    \/ Environment

Spec == Init /\ [][Next]_vars

SchedNext ==
    \/ \E u \in Units : UnitStep(u)
    \/ Environment

SchedSpec == SchedInit /\ [][SchedNext]_vars

\* the unit that takes resources; the caller may insert the missing ones
ResNext ==
    \/ Next
    \/ \E r \in ResTypes : InsertRes(r)

ResSpec == ResInit /\ [][ResNext]_vars

\* the ledger of a unit with query slots, on storage that gains and loses
\* archetypes
LedgerNext ==
    \/ Next
    \/ \E a \in Archetypes : Despawn(a)

LedgerSpec == LedgerInit /\ [][LedgerNext]_vars

\* ================================================================ properties
Range(s) == {s[i] : i \in 1..Len(s)}

Last(s) == s[Len(s)]

\* the query-like parameters of a parameter list: one slot each, in order
Slots(ps) == SelectSeq(ps, IsQueryLike)

\* the component types a slot is declared to read, and to write
Reads(p) == UNION {p.accesses[k].reads : k \in 1..Len(p.accesses)}

Writes(p) == UNION {p.accesses[k].writes : k \in 1..Len(p.accesses)}

\* slot p reads, or writes, component c of the entities of archetype a
ReadsAt(p, a, c) ==
    \E k \in 1..Len(p.accesses) : Matches(p.accesses[k], a) /\ c \in p.accesses[k].reads

WritesAt(p, a, c) ==
    \E k \in 1..Len(p.accesses) : Matches(p.accesses[k], a) /\ c \in p.accesses[k].writes

\* two slots touch component c of archetype a, one of them writing
ClashAt(p, q, a, c) ==
    \/ WritesAt(p, a, c) /\ (ReadsAt(q, a, c) \/ WritesAt(q, a, c))
    \/ ReadsAt(p, a, c) /\ WritesAt(q, a, c)

\* two slots are declared write/write or read/write on one component type
DeclaredClash(p, q) ==
    \/ Writes(p) \cap (Reads(q) \cup Writes(q)) # {}
    \/ Reads(p) \cap Writes(q) # {}

Updated(u) == history[u] # <<>>

BodyRan(u) == "body" \in Range(trace[u])

\* ---------------------------------------------------------------------- C1
\* the claim as stated: a unit with two slots declared write/write or
\* read/write on one component type has every update report a conflict
C1_AsClaimed ==
    \A u \in Units :
        LET sl == Slots(params[u])
        IN  (/\ Updated(u)
             /\ \E i, j \in 1..Len(sl) : i < j /\ DeclaredClash(sl[i], sl[j]))
            => (Last(history[u]).conflict /\ ~BodyRan(u))

\* two slots of the unit clash on a component of an archetype the storage held
\* at the unit's last update
ClashInStorage(u) ==
    LET sl == Slots(params[u])
    IN  \E i, j \in 1..Len(sl) : \E a \in Last(history[u]).world : \E c \in Components :
            i < j /\ ClashAt(sl[i], sl[j], a, c)

\* C1, amended: when two slots of a unit are declared write/write or read/write
\* on one component type and the storage holds an archetype with that component
\* that both slots match, update detects the conflict, the cycle is aborted and
\* the user function is not executed in it
C1_ConflictDetected ==
    \A u \in Units :
        (Updated(u) /\ ClashInStorage(u))
            => (/\ Last(history[u]).conflict
                /\ diag[u] # <<>>
                /\ pc[u] = "aborted"
                /\ ~BodyRan(u))

C1_Witness ==
    /\ Updated(1)
    /\ ClashInStorage(1)
    /\ params[1] = <<QueryReadA, QueryWriteA>>
    /\ pc[1] = "aborted"

\* ---------------------------------------------------------------------- C2
\* no slot of the unit writes a component type another slot reads or writes
ReadOnlySharing(ps) ==
    LET sl == Slots(ps)
    IN  \A i, j \in 1..Len(sl) : i # j => ~DeclaredClash(sl[i], sl[j])

\* C2: a unit whose slots share component types only for reading never has
\* update report a conflict, whatever the storage holds
C2_ReadReadCompatible ==
    \A u \in Units :
        ReadOnlySharing(params[u])
            => (diag[u] = <<>> /\ \A k \in 1..Len(history[u]) : ~history[u][k].conflict)

\* two slots read a component of an archetype the storage holds, and the
\* update went through
C2_Witness ==
    /\ Len(history[1]) = 2
    /\ LET sl == Slots(params[1])
       IN  /\ Len(sl) = 2
           /\ \E a \in Last(history[1]).world : \E c \in Components :
                ReadsAt(sl[1], a, c) /\ ReadsAt(sl[2], a, c)
    /\ ReadOnlySharing(params[1])
    /\ pc[1] = "updated"

\* ---------------------------------------------------------------------- C3
\* the access set of a slot on storage w, from the declared accesses
SlotAccess(p, w) ==
    [reads  |-> {<<a, c>> \in w \X Components : ReadsAt(p, a, c)},
     writes |-> {<<a, c>> \in w \X Components : WritesAt(p, a, c)}]

\* C3: a parameter set is one slot: a conflict is always between two different
\* slots (overlaps among the sub-queries of one set cause none, so a unit
\* whose only slot is a parameter set never conflicts), and a parameter set
\* whose access set is incompatible with another slot's is reported
C3_QuerySetIsOneSlot ==
    \A u \in Units :
        Updated(u) =>
            LET sl == Slots(params[u])
                w  == Last(history[u]).world
            IN  /\ Last(history[u]).conflict =>
                    \E i, j \in 1..Len(sl) :
                        i # j /\ ~is_compatible(SlotAccess(sl[i], w), SlotAccess(sl[j], w))
                /\ \A i, j \in 1..Len(sl) :
                    (/\ i # j
                     /\ sl[i].kind = "QuerySet"
                     /\ ~is_compatible(SlotAccess(sl[i], w), SlotAccess(sl[j], w)))
                        => Last(history[u]).conflict

\* a parameter set whose sub-queries write and read the same component of an
\* archetype the storage holds went through update without a conflict
C3_Witness ==
    /\ Updated(1)
    /\ \E i \in 1..Len(params[1]) : params[1][i] = QuerySetWARA
    /\ {"A"} \in Last(history[1]).world
    /\ ~Last(history[1]).conflict
    /\ pc[1] = "updated"

\* ---------------------------------------------------------------------- C6
\* the claim as stated: for a fixed parameter list every update of a unit has
\* the same outcome as the one before it, whatever the storage gained
C6_AsClaimed ==
    \A u \in Units :
        Len(history[u]) = 2 => history[u][1].conflict = history[u][2].conflict

\* some two slots of the unit have incompatible access sets on storage w
Incompatible(ps, w) ==
    LET sl == Slots(ps)
    IN  \E i, j \in 1..Len(sl) :
            i < j /\ ~is_compatible(SlotAccess(sl[j], w), SlotAccess(sl[i], w))

\* C6, amended: whether update detects a conflict is determined by the unit's
\* declared parameter types and the archetypes the storage holds at that
\* update, and by nothing else: two updates on the same storage have the same
\* outcome
C6_OutcomeDetermined ==
    \A u \in Units :
        /\ \A k \in 1..Len(history[u]) :
            history[u][k].conflict = Incompatible(params[u], history[u][k].world)
        /\ (Len(history[u]) = 2 /\ history[u][1].world = history[u][2].world)
            => history[u][1].conflict = history[u][2].conflict

\* an update without a conflict, then one with a conflict after the storage
\* gained an archetype
C6_Witness ==
    /\ Len(history[1]) = 2
    /\ ~history[1][1].conflict
    /\ history[1][2].conflict
    /\ history[1][1].world # history[1][2].world

\* ---------------------------------------------------------------------- C7
AccessSets(h) ==
    <<h.archetype_component_access, h.query_archetype_component_accesses>>

\* C7: two updates in a row with no storage mutation between them leave the
\* same aggregate access set and the same access set in every slot
C7_UpdateReproducible ==
    \A u \in Units :
        (Len(history[u]) = 2 /\ history[u][1].world = history[u][2].world)
            => AccessSets(history[u][1]) = AccessSets(history[u][2])

\* two updates on the same storage, with two slots that resolved to something
C7_Witness ==
    /\ Len(history[1]) = 2
    /\ history[1][1].world = history[1][2].world
    /\ ~history[1][2].conflict
    /\ Len(history[1][2].query_archetype_component_accesses) = 2
    /\ \A i \in 1..2 : history[1][2].query_archetype_component_accesses[i] # EmptyAccess

\* ---------------------------------------------------------------------- C4
\* whether a parameter's get_param finds its value present
Present(p, resources_) ==
    p.kind = "ChangedRes" => \A r \in p.res : resources_[r] = "changed"

BodyRuns(u) == Len(SelectSeq(trace[u], LAMBDA op : op = "body"))

AllExtracted(u) ==
    /\ Len(extracted[u]) = Len(params[u])
    /\ \A i \in 1..Len(extracted[u]) : extracted[u][i].present

\* once run has returned, the user function ran once if every parameter was
\* extracted and not at all otherwise
C4_BodyCount ==
    \A u \in Units :
        /\ pc[u] = "running" => (AllExtracted(u) /\ BodyRuns(u) = 0)
        /\ pc[u] = "ran" => (AllExtracted(u) /\ BodyRuns(u) = 1)
        /\ pc[u] = "skipped" => (~AllExtracted(u) /\ BodyRuns(u) = 0)
        /\ pc[u] \in {"flushing", "flushed"} =>
                BodyRuns(u) = IF AllExtracted(u) THEN 1 ELSE 0

\* run goes on to the user function exactly when every parameter is present
C4_GateStep ==
    \A u \in Units :
        (pc[u] = "updated" /\ pc'[u] # "updated") =>
            IF \A i \in 1..Len(params[u]) : Present(params[u][i], resources)
            THEN pc'[u] = "running"
            ELSE pc'[u] = "skipped"

\* C4: in every run the user function is executed exactly once if every
\* parameter's get_param returns present and not at all if any returns absent
C4_ConjunctiveGate == []C4_BodyCount /\ [][C4_GateStep]_vars

\* a run skipped although one of its two parameters was present
C4_Witness ==
    /\ pc[1] = "skipped"
    /\ Len(params[1]) = 2
    /\ \E i \in 1..2 : Present(params[1][i], resources) /\ params[1][i].kind = "Commands"
    /\ BodyRuns(1) = 0

Extracts(u) == "get_param" \notin Range(trace[u]) /\ "get_param" \in Range(trace'[u])

C5_ExtractStep ==
    \A u \in Units :
        Extracts(u) =>
            /\ trace[u] = <<"update">>
            /\ diag[u] = <<>>
            /\ ~Incompatible(params[u], world)

Registered(u) ==
    LET sl == Slots(params[u])
    IN  /\ state[u].query_accesses = [i \in 1..Len(sl) |-> sl[i].accesses]
        /\ Len(state[u].query_archetype_component_accesses) = Len(sl)
        /\ state[u].resource_access =
                UNION {params[u][i].res : i \in 1..Len(params[u])}
        /\ (state[u].arc_commands # <<>>) = HasParam(u, "ArcCommands")

C8_State ==
    \A u \in Units :
        IF state[u].is_initialized THEN Registered(u)
        ELSE state[u] = NewSystemState /\ pc[u] = "idle"

C8_OneWay == \A u \in Units : state[u].is_initialized => state'[u].is_initialized

FlushLog(u) ==
    SelectSeq(trace[u], LAMBDA op : op \in {"commands.apply", "arc_commands.apply"})

C9_State ==
    \A u \in Units :
        /\ pc[u] = "flushing" =>
            (FlushLog(u) = <<"commands.apply">> /\ state[u].commands = <<>>)
        /\ pc[u] = "flushed" =>
            /\ state[u].commands = <<>>
            /\ IF state[u].arc_commands # <<>>
               THEN /\ FlushLog(u) = <<"commands.apply", "arc_commands.apply">>
                    /\ state[u].arc_commands = <<(<<>>)>>
               ELSE FlushLog(u) = <<"commands.apply">>

C9_Applied ==
    \A u \in Units :
        /\ (pc[u] \in {"ran", "skipped"} /\ pc'[u] = "flushing")
                => Range(state[u].commands) \subseteq world'
        /\ (pc[u] = "flushing" /\ pc'[u] = "flushed" /\ state[u].arc_commands # <<>>)
                => Range(state[u].arc_commands[1]) \subseteq world'

\* C9: every flush applies the owned command buffer to the storage and then,
\* when there is a shared command buffer, that buffer too; without one only
\* the owned buffer is applied
C9_FlushAppliesBoth == []C9_State /\ [][C9_Applied]_vars

\* a flush that applied a command of each buffer
C9_Witness ==
    /\ pc[1] = "flushed"
    /\ BodyRan(1)
    /\ FlushLog(1) = <<"commands.apply", "arc_commands.apply">>
    /\ params[1] = <<CommandsParam, ArcCommandsParam>>
    /\ world = {{"A"}, {"B"}}

\* --------------------------------------------------------------------- C10
C10_Exclusive ==
    \A u, v \in Units :
        (u # v /\ pc[u] = "flushing") => pc[v] \notin {"running", "flushing"}

Drained(u) ==
    \/ Len(state'[u].commands) < Len(state[u].commands)
    \/ /\ state[u].arc_commands # <<>>
       /\ Len(state'[u].arc_commands[1]) < Len(state[u].arc_commands[1])

C10_OnlyInFlush ==
    \A u \in Units :
        /\ Drained(u) => (pc[u] \in {"ran", "skipped", "flushing"}
                            /\ pc'[u] \in {"flushing", "flushed"})
        /\ pc[u] = "running" => world' = world

\* C10: while a unit's flush is in progress no other unit's run or flush is,
\* and a unit's queued commands reach the storage in its flush, never in its
\* run
C10_FlushExclusive == []C10_Exclusive /\ [][C10_OnlyInFlush]_vars

\* one unit is flushing while the other, with a command queued, waits for its
\* own flush
C10_Witness ==
    /\ pc[1] = "flushing"
    /\ pc[2] = "ran"
    /\ state[2].commands # <<>>

\* --------------------------------------------------------------------- C11
\* run has returned in the unit's current cycle
RunReturned(u) == pc[u] \in {"ran", "skipped", "flushing", "flushed"}

\* C11: a unit with a ChangedRes parameter, run once per schedule cycle,
\* executes its user function in the first cycle after the tracked resource
\* was inserted or mutated and in no further cycle until the resource is
\* mutated again: the user function is executed only in a cycle that still
\* has the change to observe, never twice for one change, and once a run has
\* returned exactly one execution has happened since the last change
C11_OncePerChange ==
    \A u \in Units :
        (HasParam(u, "ChangedRes") /\ \A r \in Tracked(u) : resources[r] # "absent")
            => /\ fired[u] <= 1
               /\ RunReturned(u) => fired[u] = 1
               /\ pc[u] = "running" => fired[u] = 0
               /\ pc[u] = "skipped" => ~BodyRan(u)
               /\ (pc[u] = "ran" /\ fired[u] = 1) => BodyRan(u)

\* the user function was executed again, in a later cycle, after the resource
\* was mutated
C11_Witness ==
    /\ params[1] = <<ChangedResBool, QueryWriteA>>
    /\ Len(history[1]) = 2
    /\ pc[1] = "ran"
    /\ BodyRan(1)
    /\ fired[1] = 1

\* --------------------------------------------------------------------- C12
C12_State ==
    \A u \in Units :
        (HasParam(u, "Or") /\ \E r \in Tracked(u) : resources[r] # "absent")
            => /\ fired[u] <= 1
               /\ RunReturned(u) => fired[u] = 1

C12_GateStep ==
    \A u \in Units :
        (HasParam(u, "Or") /\ pc[u] = "updated" /\ pc'[u] # "updated")
            => IF resources["bool"] = "changed" \/ resources["i32"] = "changed"
               THEN pc'[u] = "running"
               ELSE pc'[u] = "skipped"

\* C12: a unit with the parameter Or<(Option<ChangedRes<bool>>,
\* Option<ChangedRes<i32>>)> executes its user function in a cycle exactly
\* when at least one of the two resources changed since the previous cycle:
\* a change of either one alone causes exactly one more execution, and a
\* cycle in which neither changed executes nothing
C12_EitherChange == []C12_State /\ [][C12_GateStep]_vars

\* the user function was executed in a later cycle in which only the i32
\* resource had changed
C12_Witness ==
    /\ params[1] = <<OrChangedRes, QueryWriteA>>
    /\ Len(history[1]) = 2
    /\ pc[1] = "ran"
    /\ BodyRan(1)
    /\ fired[1] = 1
    /\ resources = [r \in ResTypes |-> IF r = "i32" THEN "changed" ELSE "unchanged"]

\* --------------------------------------------------------------------- C13
\* C13, as stated: a unit with a parameter that requires a resource which is
\* not in the store does not become initialized (initialize reports the
\* failure instead of succeeding and leaving the failure to a later run);
\* resources are never removed, so one that is absent now was absent when
\* initialize was called
C13_AsClaimed ==
    \A u \in Units :
        (\E r \in ResOf(u, {"ResMut"}) : resources[r] = "absent")
            => ~state[u].is_initialized

\* --------------------------------------------------------------------- C14
\* C14: after every update that completes without a conflict, the access
\* sets of every two different slots of the unit are compatible
C14_SlotsCompatible ==
    \A u \in Units :
        (Updated(u) /\ ~Last(history[u]).conflict) =>
            LET qs == Last(history[u]).query_archetype_component_accesses
            IN  \A i, j \in 1..Len(qs) : i # j => is_compatible(qs[i], qs[j])

\* an update without a conflict of a unit with three slots, one of them
\* writing, each resolved to something
C14_Witness ==
    /\ Updated(1)
    /\ ~Last(history[1]).conflict
    /\ pc[1] = "updated"
    /\ LET qs == Last(history[1]).query_archetype_component_accesses
       IN  /\ Len(qs) = 3
           /\ \A i \in 1..3 : qs[i] # EmptyAccess
           /\ \E i \in 1..3 : qs[i].writes # {}

\* --------------------------------------------------------------------- C15
UnionOf(S) ==
    [reads |-> UNION {x.reads : x \in S}, writes |-> UNION {x.writes : x \in S}]

Keys(access) == access.reads \cup access.writes

\* C15: after every update without a conflict each slot's access set is
\* exactly what its declared query accesses resolve to on the storage of that
\* update, and the aggregate is exactly the union of the slots' access sets:
\* keys of archetypes the storage lost are gone, keys of archetypes it gained
\* are there
C15_FreshAccess ==
    \A u \in Units :
        (Updated(u) /\ ~Last(history[u]).conflict) =>
            LET h  == Last(history[u])
                qs == h.query_archetype_component_accesses
                sl == Slots(params[u])
            IN  /\ Len(qs) = Len(sl)
                /\ \A i \in 1..Len(sl) : qs[i] = SlotAccess(sl[i], h.world)
                /\ h.archetype_component_access = UnionOf({qs[i] : i \in 1..Len(qs)})
                /\ \A key \in Keys(h.archetype_component_access) : key[1] \in h.world
                /\ state[u].query_archetype_component_accesses = qs
                /\ state[u].archetype_component_access = h.archetype_component_access

\* two updates without a conflict, between which the storage lost an archetype
\* the unit held keys of and gained one it now holds keys of
C15_Witness ==
    /\ Len(history[1]) = 2
    /\ ~history[1][1].conflict
    /\ ~history[1][2].conflict
    /\ \E gone \in history[1][1].world \ history[1][2].world :
            \E key \in Keys(history[1][1].archetype_component_access) : key[1] = gone
    /\ \E new \in history[1][2].world \ history[1][1].world :
            \E key \in Keys(history[1][2].archetype_component_access) : key[1] = new

\* --------------------------------------------------------------------- C16
\* the first slot whose access set on storage w is incompatible with the union
\* of those of the slots before it (0: there is none)
FirstConflict(sl, w) ==
    LET bad == {i \in 1..Len(sl) :
                    ~is_compatible(SlotAccess(sl[i], w),
                                   UnionOf({SlotAccess(sl[j], w) : j \in 1..(i - 1)}))}
    IN  IF bad = {} THEN 0 ELSE CHOOSE i \in bad : \A k \in bad : i <= k

\* the slots' access sets as they were before the unit's last update
SlotsBefore(u) ==
    IF Len(history[u]) = 2 THEN history[u][1].query_archetype_component_accesses
    ELSE [i \in 1..Len(Slots(params[u])) |-> EmptyAccess]

\* update has just returned for unit u, with or without a conflict
JustUpdated(u) ==
    Updated(u) /\ trace[u] = <<"update">> /\ world = Last(history[u]).world

\* C16: update is fail-fast: it reports the lowest-index slot whose access set
\* is incompatible with the union of the access sets of the slots before it,
\* one conflict per pass, and leaves every slot after that one as it was:
\* neither cleared nor resolved nor merged into the aggregate
C16_FailFast ==
    \A u \in Units :
        JustUpdated(u) =>
            LET h  == Last(history[u])
                qs == h.query_archetype_component_accesses
                sl == Slots(params[u])
                first == FirstConflict(sl, h.world)
            IN  /\ h.conflict = (first # 0)
                /\ h.conflict = (diag[u] # <<>>)
                /\ h.conflict =>
                    /\ Len(diag[u]) = 1
                    /\ diag[u][1].conflict_index = first
                    /\ \A k \in (first + 1)..Len(sl) : qs[k] = SlotsBefore(u)[k]
                    /\ \A k \in 1..first : qs[k] = SlotAccess(sl[k], h.world)
                    /\ h.archetype_component_access =
                            UnionOf({SlotAccess(sl[j], h.world) : j \in 1..(first - 1)})

\* a conflict at the second of three slots, the third left with an access set
\* that is not what it resolves to on the storage of the update
C16_Witness ==
    /\ JustUpdated(1)
    /\ pc[1] = "aborted"
    /\ diag[1] # <<>>
    /\ diag[1][1].conflict_index = 2
    /\ LET h == Last(history[1])
           sl == Slots(params[1])
       IN  /\ Len(sl) = 3
           /\ h.query_archetype_component_accesses[3] # SlotAccess(sl[3], h.world)

\* --------------------------------------------------------------------- C17
\* C17, as stated: the prior query update names in its diagnostic is the
\* first, lowest-index, slot before the conflicting one whose own access set
\* is incompatible with that of the conflicting slot
C17_AsClaimed ==
    \A u \in Units :
        diag[u] # <<>> =>
            LET w  == Last(history[u]).world
                sl == Slots(params[u])
                i  == diag[u][1].conflict_index
                prior == {j \in 1..(i - 1) :
                            ~is_compatible(SlotAccess(sl[i], w), SlotAccess(sl[j], w))}
            IN  /\ diag[u][1].conflicts_with_index # <<>>
                /\ diag[u][1].conflicts_with_index[1] \in prior
                /\ \A j \in prior : diag[u][1].conflicts_with_index[1] <= j

\* --------------------------------------------------------------------- C18
\* how many of the first i parameters of a list are query-like
QueryRank(ps, i) == Len(Slots(SubSeq(ps, 1, i)))

\* C18: every run starts its parameter extraction with the cursor at 0,
\* wherever the run before it left the cursor: the k-th query-like parameter
\* of the list is bound to slot k (the first to slot 1 here), and the cursor
\* counts the query-like parameters the run extracted
C18_CursorReset ==
    \A u \in Units :
        /\ \A i \in 1..Len(extracted[u]) :
            IsQueryLike(params[u][i]) => extracted[u][i].slot = QueryRank(params[u], i)
        /\ "get_param" \in Range(trace[u]) =>
                state[u].current_query_index = QueryRank(params[u], Len(extracted[u]))

\* a run of a later cycle, skipped after its first parameter, a query, had
\* been extracted; the run before it had left the cursor at 1
C18_Witness ==
    /\ params[1] = <<QueryReadA, ChangedResBool>>
    /\ Len(history[1]) = 2
    /\ pc[1] = "skipped"
    /\ Len(extracted[1]) = 2
    /\ extracted[1][1].slot = 1
    /\ state[1].current_query_index = 1

\* --------------------------------------------------------------------- C19
\* C19: whenever update finds a slot incompatible with the aggregate, that
\* slot is not the first one and some slot before it is on its own
\* incompatible with it: the diagnostic always names a prior query, never the
\* "Unknown" fallback
C19_PriorSlotKnown ==
    \A u \in Units :
        diag[u] # <<>> =>
            LET w  == Last(history[u]).world
                sl == Slots(params[u])
                i  == diag[u][1].conflict_index
            IN  /\ i >= 2
                /\ i <= Len(sl)
                /\ diag[u][1].conflicts_with_index # <<>>
                /\ LET j == diag[u][1].conflicts_with_index[1]
                   IN  /\ j >= 1
                       /\ j < i
                       /\ ~is_compatible(SlotAccess(sl[i], w), SlotAccess(sl[j], w))

\* a conflict reported by the update that followed one without a conflict
\* which had left keys in the aggregate
C19_Witness ==
    /\ Len(history[1]) = 2
    /\ ~history[1][1].conflict
    /\ Keys(history[1][1].archetype_component_access) # {}
    /\ history[1][2].conflict
    /\ diag[1] # <<>>
    /\ diag[1][1].conflicts_with_index # <<>>

\* --------------------------------------------------------------------- C20
\* the orders in which n slots can be declared
Perms(n) == {f \in [1..n -> 1..n] : \A i, j \in 1..n : i # j => f[i] # f[j]}

\* C20: whether update reports a conflict does not depend on the order in
\* which the slots are declared: a unit declared with the same slots in any
\* other order has, on the same storage, a conflict exactly when this one has,
\* and the same aggregate when there is none
C20_OrderIndependent ==
    \A u \in Units :
        JustUpdated(u) =>
            LET h  == Last(history[u])
                sl == Slots(params[u])
            IN  \A f \in Perms(Len(sl)) :
                    LET r == update(initialize([i \in 1..Len(sl) |-> sl[f[i]]],
                                               NewSystemState), h.world)
                    IN  /\ (r.conflict_index # <<>>) = h.conflict
                        /\ ~h.conflict =>
                                r.state.archetype_component_access
                                    = h.archetype_component_access

\* an update without a conflict of a unit with three different slots between
\* two of which another order puts the third
C20_Witness ==
    /\ JustUpdated(1)
    /\ params[1] = <<QueryWriteA, QueryReadB, QueryWriteARB>>
    /\ Last(history[1]).world = {{"A"}, {"B"}}
    /\ ~Last(history[1]).conflict

====
